---- MODULE Spec2Model ----
(***************************************************************************)
(* A model of src/steam/steam-api.c: the Steam web API client of the       *)
(* bitlbee plugin.  The Session (SteamApi), the request contexts           *)
(* (SteamApiPriv), the response dispatcher steam_api_cb with its parse     *)
(* callbacks, the relogon controller and the summaries chunker are         *)
(* translated from that file.  The HTTP layer (steam-http.c) and the JSON  *)
(* helpers (steam-util.c) are not part of the file; they are modelled from *)
(* the written specification at their interface.                           *)
(***************************************************************************)
EXTENDS Integers, Sequences, FiniteSets, TLC

(* ------------------------------------------------------------------ *)
(* Bounds of the model                                                 *)
(* ------------------------------------------------------------------ *)

\* public operations invoked in one behaviour
MaxUser == 2
\* Relogon requests outstanding at the same time
MaxRelogon == 2
\* tokens, queue ids and message ids the server may send: 1..MaxVal
MaxVal == 1
\* the ghost counters saturate here
MaxCount == 2
\* the longest account-id list handed to steam_api_summaries
MaxFriends == 203

\* the longest JSON array of a Friends, Poll or Summaries response
MaxArr == 2

\* the ids of one Summaries request (steam_api_summaries, the first loop)
ChunkMax == 100

(* ------------------------------------------------------------------ *)
(* enum _SteamApiType                                                  *)
(* ------------------------------------------------------------------ *)

STEAM_API_TYPE_AUTH == 0
STEAM_API_TYPE_FRIENDS == 1
STEAM_API_TYPE_LOGON == 2
STEAM_API_TYPE_RELOGON == 3
STEAM_API_TYPE_LOGOFF == 4
STEAM_API_TYPE_MESSAGE == 5
STEAM_API_TYPE_POLL == 6
STEAM_API_TYPE_SUMMARIES == 7
STEAM_API_TYPE_LAST == 8

(* ------------------------------------------------------------------ *)
(* Strings: sequences of characters, so that the case-insensitive      *)
(* comparison is computed and not assumed.                             *)
(* ------------------------------------------------------------------ *)

NullStr == <<"\\0">>

StrOK == <<"O", "K">>
StrOk == <<"o", "k">>
StrNLO == <<"N", "o", "t", " ", "L", "o", "g", "g", "e", "d", " ", "O", "n">>
StrNlo == <<"n", "o", "t", " ", "l", "o", "g", "g", "e", "d", " ", "o", "n">>
StrTimeout == <<"T", "i", "m", "e", "o", "u", "t">>
StrDenied == <<"D", "e", "n", "i", "e", "d">>

\* the values of a response's "error" field
ErrStrs == {StrOK, StrOk, StrNLO, StrNlo, StrTimeout, StrDenied}

Upper == <<"A", "B", "C", "D", "E", "F", "G", "H", "I", "J", "K", "L", "M",
           "N", "O", "P", "Q", "R", "S", "T", "U", "V", "W", "X", "Y", "Z">>
Lower == <<"a", "b", "c", "d", "e", "f", "g", "h", "i", "j", "k", "l", "m",
           "n", "o", "p", "q", "r", "s", "t", "u", "v", "w", "x", "y", "z">>

\* the place of an upper-case letter in the alphabet
UpperIdx ==
    [c \in {Upper[i] : i \in 1..Len(Upper)} |->
        CHOOSE i \in 1..Len(Upper) : Upper[i] = c]

g_ascii_tolower(c) ==
    IF c \in DOMAIN UpperIdx THEN Lower[UpperIdx[c]] ELSE c

\* TRUE iff g_ascii_strcasecmp(a, b) == 0
StrCaseEq(a, b) ==
    /\ Len(a) = Len(b)
    /\ \A i \in 1..Len(a) : g_ascii_tolower(a[i]) = g_ascii_tolower(b[i])

(* ------------------------------------------------------------------ *)
(* JSON helpers of steam-util.c, at their interface                    *)
(* ------------------------------------------------------------------ *)

\* steam_util_json_str: TRUE iff the field is a string of the document
steam_util_json_str(doc, name) == doc[name] # NullStr

\* steam_util_json_scmp: the field is present and equals match
steam_util_json_scmp(doc, name, match) ==
    /\ steam_util_json_str(doc, name)
    /\ StrCaseEq(doc[name], match)

\* steam_util_json_int: TRUE iff the field is an integer of the document
steam_util_json_int(doc, name) == doc[name] >= 0

(* ------------------------------------------------------------------ *)
(* State                                                               *)
(* ------------------------------------------------------------------ *)

VARIABLES
    api,      \* SteamApi: token, umqid, steamid, lmid
    paused,   \* the HTTP layer's queue is paused
    queue,    \* the HTTP layer's FIFO of queued requests (head first)
    reqs,     \* the requests and their contexts (SteamHttpReq + SteamApiPriv)
    nuser,    \* public operations invoked so far
    last,     \* what the last handler did (history)
    sum,      \* the call of steam_api_summaries and what it handed over
    rsp,      \* the response the last dispatch of Parse handled (history)
    conv      \* the call of a presence-state conversion and its result

vars == <<api, paused, queue, reqs, nuser, last, sum, rsp, conv>>

UserIds == 1..MaxUser
RelogonIds == (MaxUser + 1)..(MaxUser + MaxRelogon)
ReqIds == 1..(MaxUser + MaxRelogon)

NoErr == [code |-> "none", msg |-> <<>>, pfx |-> <<>>]

\* nothing was handed to a continuation
NoDlv == [shape |-> "none", err |-> NoErr, rdata |-> <<>>]

\* an unused request slot
FreeReq ==
    [type |-> STEAM_API_TYPE_LAST, func |-> FALSE, queued |-> FALSE,
     tok |-> 0, umq |-> 0, st |-> "free", nofree |-> FALSE, err |-> NoErr,
     calls |-> 0, resends |-> 0, btok |-> 0, bumq |-> 0]

Bump(n) == IF n < MaxCount THEN n + 1 ELSE n

\* the state the handlers work on; ev (what the handler did, in order),
\* callf, rdata and dlv (the error handed to the continuation) are the
\* handler's own
World ==
    [api |-> api, paused |-> paused, queue |-> queue, reqs |-> reqs,
     ev |-> <<>>, callf |-> TRUE, rdata |-> <<>>, dlv |-> NoDlv]

Ev(w, e, r) == [w EXCEPT !.ev = Append(@, [e |-> e, r |-> r])]

(* ------------------------------------------------------------------ *)
(* The HTTP layer (steam-http.c), from its interface: a paused flag, a *)
(* FIFO of the requests flagged QUEUED with at most one of them handed *)
(* to the network, and every other request handed over at once.        *)
(* ------------------------------------------------------------------ *)

\* the request goes to the network
Dispatch(w, r) == Ev([w EXCEPT !.reqs[r].st = "flight"], "send", r)

\* steam_http_queue_pause(http, pause)
steam_http_queue_pause(w, pause) ==
    IF pause
    THEN Ev([w EXCEPT !.paused = TRUE], "pause", 0)
    ELSE LET w1 == Ev([w EXCEPT !.paused = FALSE], "unpause", 0)
         IN  IF Len(w1.queue) > 0 /\ w1.reqs[Head(w1.queue)].st = "wait"
             THEN Dispatch(w1, Head(w1.queue))
             ELSE w1

\* steam_http_req_send(req)
steam_http_req_send(w, r) ==
    IF w.reqs[r].queued
    THEN LET w1 == [w EXCEPT !.queue = Append(@, r), !.reqs[r].st = "wait"]
         IN  IF Len(w1.queue) = 1 /\ ~w1.paused THEN Dispatch(w1, r) ELSE w1
    ELSE Dispatch(w, r)

\* steam_http_req_resend(req): the same request, its parameters as they
\* were set, goes out again; a queued one keeps its place at the head of
\* the queue and waits while the queue is paused.
steam_http_req_resend(w, r) ==
    LET w1 == Ev([w EXCEPT !.reqs[r].nofree = TRUE,
                           !.reqs[r].resends = Bump(@)], "resend", r)
    IN  IF w1.reqs[r].queued /\ w1.paused
        THEN [w1 EXCEPT !.reqs[r].st = "wait"]
        ELSE Dispatch(w1, r)

\* steam_api_priv_free, the HTTP layer's destroy notification: a user
\* request keeps its history (type, func, calls, resends), a Relogon slot
\* is free again.
steam_api_priv_free(w, r) ==
    IF r \in RelogonIds
    THEN [w EXCEPT !.reqs[r] = FreeReq]
    ELSE [w EXCEPT !.reqs[r] = [@ EXCEPT !.st = "done", !.tok = 0, !.umq = 0,
                                        !.btok = 0, !.bumq = 0, !.err = NoErr]]

\* what the HTTP layer does once the request's callback has returned:
\* a resent request lives on, any other is freed and, if it was queued,
\* leaves the queue, whose next request goes out unless the queue is paused.
steam_http_req_done(w, r) ==
    IF w.reqs[r].nofree
    THEN [w EXCEPT !.reqs[r].nofree = FALSE]
    ELSE LET q  == w.reqs[r].queued
             w1 == IF q THEN [w EXCEPT !.queue = SelectSeq(@, LAMBDA x : x # r)]
                        ELSE w
             w2 == steam_api_priv_free(w1, r)
         IN  IF q /\ ~w2.paused /\ Len(w2.queue) > 0
                  /\ w2.reqs[Head(w2.queue)].st = "wait"
             THEN Dispatch(w2, Head(w2.queue))
             ELSE w2

(* ------------------------------------------------------------------ *)
(* Request contexts and builders                                       *)
(* ------------------------------------------------------------------ *)

\* steam_api_priv_new
steam_api_priv_new(type, func) ==
    [FreeReq EXCEPT !.type = type, !.func = func, !.st = "new"]

\* steam_http_req_new + steam_http_req_params_set: the parameters
\* access_token and umqid are copied from the Session when the request
\* is built (btok, bumq: the Session's values at that moment, history).
NewReq(w, r, type, func, queued) ==
    [w EXCEPT !.reqs[r] =
        [steam_api_priv_new(type, func) EXCEPT
            !.queued = queued,
            !.tok = w.api.token, !.umq = w.api.umqid,
            !.btok = w.api.token, !.bumq = w.api.umqid]]

FreeRelogon(w) == {r \in RelogonIds : w.reqs[r].st = "free"}

\* steam_api_relogon that sends before it pauses the queue
steam_api_relogon_sendfirst(w) ==
    LET r  == CHOOSE x \in FreeRelogon(w) : \A y \in FreeRelogon(w) : x <= y
        w1 == NewReq(w, r, STEAM_API_TYPE_RELOGON, FALSE, FALSE)
    IN  steam_http_queue_pause(steam_http_req_send(w1, r), TRUE)

\* steam_api_relogon whose request is flagged QUEUED
steam_api_relogon_queued(w) ==
    LET r  == CHOOSE x \in FreeRelogon(w) : \A y \in FreeRelogon(w) : x <= y
        w1 == NewReq(w, r, STEAM_API_TYPE_RELOGON, FALSE, TRUE)
        w2 == steam_http_queue_pause(w1, TRUE)
    IN  steam_http_req_send(w2, r)

\* steam_api_relogon
steam_api_relogon(w) ==
    LET r  == CHOOSE x \in FreeRelogon(w) : \A y \in FreeRelogon(w) : x <= y
        w1 == NewReq(w, r, STEAM_API_TYPE_RELOGON, FALSE, FALSE)
        w2 == steam_http_queue_pause(w1, TRUE)
    IN  steam_http_req_send(w2, r)

\* steam_api_auth
steam_api_auth(w, r, func) ==
    steam_http_req_send(NewReq(w, r, STEAM_API_TYPE_AUTH, func, FALSE), r)

\* steam_api_logon
steam_api_logon(w, r, func) ==
    steam_http_req_send(NewReq(w, r, STEAM_API_TYPE_LOGON, func, FALSE), r)

\* steam_api_logoff
steam_api_logoff(w, r, func) ==
    steam_http_req_send(NewReq(w, r, STEAM_API_TYPE_LOGOFF, func, FALSE), r)

\* the kinds of SteamMessage
MessageTypes == {"SAYTEXT", "EMOTE", "LEFT_CONV", "RELATIONSHIP", "STATE", "TYPING"}

\* steam_api_message whose request is not flagged QUEUED
steam_api_message_unqueued(w, r, mtype, func) ==
    LET w1 == NewReq(w, r, STEAM_API_TYPE_MESSAGE, func, FALSE)
    IN  IF mtype \in {"SAYTEXT", "EMOTE", "TYPING"}
        THEN steam_http_req_send(w1, r)
        ELSE [w1 EXCEPT !.reqs[r] = [@ EXCEPT !.st = "dropped", !.tok = 0, !.umq = 0,
                                             !.btok = 0, !.bumq = 0]]

\* steam_api_message: a kind that cannot be sent frees the request
\* before it is sent, and the continuation never runs.
steam_api_message(w, r, mtype, func) ==
    LET w1 == NewReq(w, r, STEAM_API_TYPE_MESSAGE, func, FALSE)
    IN  IF mtype \in {"SAYTEXT", "EMOTE", "TYPING"}
        THEN steam_http_req_send([w1 EXCEPT !.reqs[r].queued = TRUE], r)
        ELSE [w1 EXCEPT !.reqs[r] = [@ EXCEPT !.st = "dropped", !.tok = 0, !.umq = 0,
                                             !.btok = 0, !.bumq = 0]]

\* steam_api_poll
steam_api_poll(w, r, func) ==
    steam_http_req_send(NewReq(w, r, STEAM_API_TYPE_POLL, func, FALSE), r)

\* steam_api_friends
steam_api_friends(w, r, func) ==
    steam_http_req_send(NewReq(w, r, STEAM_API_TYPE_FRIENDS, func, FALSE), r)

\* steam_api_summary
steam_api_summary(w, r, func) ==
    steam_http_req_send(NewReq(w, r, STEAM_API_TYPE_SUMMARIES, func, FALSE), r)

(* ------------------------------------------------------------------ *)
(* Parse callbacks: each takes the state, the request and the parsed   *)
(* document and returns the state, with callf the callback's result.   *)
(* ------------------------------------------------------------------ *)

\* g_set_error(&priv->err, STEAM_API_ERROR, code, "%s", msg)
SetErr(w, r, code, msg) ==
    [w EXCEPT !.reqs[r].err = [code |-> code, msg |-> msg, pfx |-> <<>>]]

StrGuard == <<"s", "t", "e", "a", "m", "g", "u", "a", "r", "d", "_", "c", "o", "d", "e",
              "_", "r", "e", "q", "u", "i", "r", "e", "d">>
StrFriend == <<"f", "r", "i", "e", "n", "d">>
StrEmptyFriends == <<"E", "m", "p", "t", "y", " ", "f", "r", "i", "e", "n", "d", "s",
                     " ", "l", "i", "s", "t">>
StrNoFriends == <<"N", "o", " ", "f", "r", "i", "e", "n", "d", "s", " ",
                  "r", "e", "t", "u", "r", "n", "e", "d">>

\* steam_util_json_val(json, name, json_array, &jv)
steam_util_json_val(doc, name) == doc[name].present

\* an account id, a queue id or a token is a string of the document:
\* 0 stands for the absent field (and for the NULL pointer)
json_id(doc, name) == doc[name] # 0

\* steam_util_json_scmp on such a field
json_id_cmp(doc, name, match) == json_id(doc, name) /\ doc[name] = match

\* steam_api_auth_cb
steam_api_auth_cb(w, r, doc) ==
    IF json_id(doc, "access_token")
    THEN [w EXCEPT !.api.token = doc.access_token, !.callf = TRUE]
    ELSE [SetErr(w, r,
                 IF steam_util_json_scmp(doc, "x_errorcode", StrGuard)
                 THEN "AUTH_REQ" ELSE "AUTH",
                 doc.error_description) EXCEPT !.callf = TRUE]

RECURSIVE FriendsLoop(_, _, _)
\* the loop of steam_api_friends_cb: g_slist_prepend of every kept id
FriendsLoop(arr, i, fl) ==
    IF i > Len(arr) THEN fl
    ELSE LET je == arr[i]
         IN  IF ~steam_util_json_scmp(je, "relationship", StrFriend)
             THEN FriendsLoop(arr, i + 1, fl)
             ELSE IF ~json_id(je, "steamid")
             THEN FriendsLoop(arr, i + 1, fl)
             ELSE FriendsLoop(arr, i + 1, <<je.steamid>> \o fl)

RECURSIVE FriendsLoopAll(_, _, _)
\* the loop of steam_api_friends_cb without its test of "relationship"
FriendsLoopAll(arr, i, fl) ==
    IF i > Len(arr) THEN fl
    ELSE IF ~json_id(arr[i], "steamid")
    THEN FriendsLoopAll(arr, i + 1, fl)
    ELSE FriendsLoopAll(arr, i + 1, <<arr[i].steamid>> \o fl)

\* steam_api_friends_cb that keeps the entries of every relationship
steam_api_friends_cb_norel(w, r, doc) ==
    IF ~steam_util_json_val(doc, "friends")
    THEN [SetErr(w, r, "FRIENDS", StrEmptyFriends) EXCEPT !.callf = TRUE]
    ELSE LET fl == FriendsLoopAll(doc.friends.values, 1, <<>>)
             w1 == [w EXCEPT !.rdata = fl, !.callf = TRUE]
         IN  IF fl # <<>> THEN w1
             ELSE SetErr(w1, r, "FRIENDS", StrEmptyFriends)

\* steam_api_friends_cb
steam_api_friends_cb(w, r, doc) ==
    IF ~steam_util_json_val(doc, "friends")
    THEN [SetErr(w, r, "FRIENDS", StrEmptyFriends) EXCEPT !.callf = TRUE]
    ELSE LET fl == FriendsLoop(doc.friends.values, 1, <<>>)
             w1 == [w EXCEPT !.rdata = fl, !.callf = TRUE]
         IN  IF fl # <<>> THEN w1
             ELSE SetErr(w1, r, "FRIENDS", StrEmptyFriends)

\* steam_api_logon_cb
steam_api_logon_cb(w, r, doc) ==
    IF ~steam_util_json_scmp(doc, "error", StrOK)
    THEN [SetErr(w, r, "LOGON", doc.error) EXCEPT !.callf = TRUE]
    ELSE [w EXCEPT
            !.api.lmid = IF steam_util_json_int(doc, "message")
                         THEN doc.message ELSE @,
            !.api.steamid = IF json_id_cmp(doc, "steamid", @) THEN @ ELSE doc.steamid,
            !.api.umqid = IF json_id_cmp(doc, "umqid", @) THEN @ ELSE doc.umqid,
            !.callf = TRUE]

\* steam_api_relogon_cb
steam_api_relogon_cb(w, r, doc) ==
    LET w1 == steam_http_queue_pause(w, FALSE)
    IN  IF steam_util_json_scmp(doc, "error", StrOK)
        THEN [w1 EXCEPT !.callf = TRUE]
        ELSE [SetErr(w1, r, "RELOGON", doc.error) EXCEPT !.callf = TRUE]

\* steam_api_logoff_cb that forgets the account id once logged off
steam_api_logoff_cb_clear(w, r, doc) ==
    IF steam_util_json_scmp(doc, "error", StrOK)
    THEN [w EXCEPT !.api.steamid = 0, !.callf = TRUE]
    ELSE [SetErr(w, r, "LOGOFF", doc.error) EXCEPT !.callf = TRUE]

\* steam_api_logoff_cb
steam_api_logoff_cb(w, r, doc) ==
    IF steam_util_json_scmp(doc, "error", StrOK)
    THEN [w EXCEPT !.callf = TRUE]
    ELSE [SetErr(w, r, "LOGOFF", doc.error) EXCEPT !.callf = TRUE]

\* steam_api_message_cb that retries once only: a second "Not Logged On"
\* is delivered as an error
steam_api_message_cb_once(w, r, doc) ==
    IF steam_util_json_scmp(doc, "error", StrOK)
    THEN [w EXCEPT !.callf = TRUE]
    ELSE IF StrCaseEq(doc.error, StrNLO) /\ w.reqs[r].resends = 0
    THEN [steam_http_req_resend(steam_api_relogon(w), r) EXCEPT !.callf = FALSE]
    ELSE [SetErr(w, r, "MESSAGE", doc.error) EXCEPT !.callf = TRUE]

\* steam_api_message_cb that rebuilds the parameters from the Session
\* before it resends
steam_api_message_cb_rebuild(w, r, doc) ==
    IF steam_util_json_scmp(doc, "error", StrOK)
    THEN [w EXCEPT !.callf = TRUE]
    ELSE IF StrCaseEq(doc.error, StrNLO)
    THEN [steam_http_req_resend(
              steam_api_relogon([w EXCEPT !.reqs[r].tok = w.api.token,
                                          !.reqs[r].umq = w.api.umqid]), r)
          EXCEPT !.callf = FALSE]
    ELSE [SetErr(w, r, "MESSAGE", doc.error) EXCEPT !.callf = TRUE]

\* steam_api_message_cb
steam_api_message_cb(w, r, doc) ==
    IF steam_util_json_scmp(doc, "error", StrOK)
    THEN [w EXCEPT !.callf = TRUE]
    ELSE IF StrCaseEq(doc.error, StrNLO)
    THEN [steam_http_req_resend(steam_api_relogon(w), r) EXCEPT !.callf = FALSE]
    ELSE [SetErr(w, r, "MESSAGE", doc.error) EXCEPT !.callf = TRUE]

\* steam_message_type_str
steam_message_type_str(t) ==
    CASE t = "SAYTEXT" -> <<"s", "a", "y", "t", "e", "x", "t">>
      [] t = "EMOTE" -> <<"e", "m", "o", "t", "e">>
      [] t = "LEFT_CONV" -> <<"l", "e", "f", "t", "c", "o", "n", "v", "e", "r", "s", "a", "t", "i", "o", "n">>
      [] t = "RELATIONSHIP" -> <<"p", "e", "r", "s", "o", "n", "a", "r", "e", "l", "a", "t", "i", "o", "n", "s", "h", "i", "p">>
      [] t = "STATE" -> <<"p", "e", "r", "s", "o", "n", "a", "s", "t", "a", "t", "e">>
      [] t = "TYPING" -> <<"t", "y", "p", "i", "n", "g">>
      [] OTHER -> <<>>

\* the kinds in the order of the enumeration
MessageTypeSeq == <<"SAYTEXT", "EMOTE", "LEFT_CONV", "RELATIONSHIP", "STATE", "TYPING">>

\* steam_message_type_from_str: the first kind whose name matches, or LAST
steam_message_type_from_str(str) ==
    IF str = NullStr THEN "LAST"
    ELSE LET hits == {i \in 1..Len(MessageTypeSeq) :
                        StrCaseEq(str, steam_message_type_str(MessageTypeSeq[i]))}
         IN  IF hits = {} THEN "LAST"
             ELSE MessageTypeSeq[CHOOSE i \in hits : \A j \in hits : i <= j]

\* memset(&sm, 0, sizeof sm)
ZeroMessage == [steamid |-> 0, type |-> "SAYTEXT", text |-> NullStr,
                nick |-> NullStr, state |-> 0]

\* one iteration of the loop of steam_api_poll_cb: the message of the
\* entry, or none when the entry is skipped
PollEntry(w, je) ==
    IF json_id_cmp(je, "steamid_from", w.api.steamid) THEN <<>>
    ELSE IF ~steam_util_json_str(je, "type") THEN <<>>
    ELSE LET t  == steam_message_type_from_str(je.type)
             sm == [ZeroMessage EXCEPT !.steamid = je.steamid_from, !.type = t]
         IN  CASE t \in {"SAYTEXT", "EMOTE"} ->
                    IF ~steam_util_json_str(je, "text") THEN <<>>
                    ELSE <<[sm EXCEPT !.text = je.text]>>
               [] t = "STATE" ->
                    IF ~steam_util_json_str(je, "persona_name") THEN <<>>
                    ELSE IF ~steam_util_json_int(je, "persona_state") THEN <<>>
                    ELSE <<[sm EXCEPT !.nick = je.persona_name,
                                      !.state = je.persona_state]>>
               [] t = "RELATIONSHIP" ->
                    IF ~steam_util_json_int(je, "persona_state") THEN <<>>
                    ELSE <<[sm EXCEPT !.state = je.persona_state]>>
               [] t \in {"TYPING", "LEFT_CONV"} -> <<sm>>
               [] OTHER -> <<>>

RECURSIVE PollLoop(_, _, _, _)
\* the loop of steam_api_poll_cb: g_slist_prepend of every kept message
PollLoop(w, arr, i, mu) ==
    IF i > Len(arr) THEN mu
    ELSE PollLoop(w, arr, i + 1, PollEntry(w, arr[i]) \o mu)

\* g_slist_reverse
RECURSIVE g_slist_reverse(_)
g_slist_reverse(l) ==
    IF l = <<>> THEN <<>> ELSE g_slist_reverse(Tail(l)) \o <<Head(l)>>

\* steam_api_poll_cb that resends and still reports the attempt
steam_api_poll_cb_deliver(w, r, doc) ==
    LET w1 == IF steam_util_json_int(doc, "messagelast")
              THEN [w EXCEPT !.api.lmid = doc.messagelast] ELSE w
    IN  IF /\ steam_util_json_str(doc, "error")
           /\ ~StrCaseEq(doc.error, StrTimeout)
           /\ ~StrCaseEq(doc.error, StrOK)
        THEN IF StrCaseEq(doc.error, StrNLO)
             THEN [steam_http_req_resend(steam_api_relogon(w1), r) EXCEPT !.callf = TRUE]
             ELSE [SetErr(w1, r, "POLL", doc.error) EXCEPT !.callf = TRUE]
        ELSE IF ~steam_util_json_val(doc, "messages")
        THEN [w1 EXCEPT !.callf = TRUE]
        ELSE [w1 EXCEPT !.rdata = g_slist_reverse(PollLoop(w1, doc.messages.values, 1, <<>>)),
                        !.callf = TRUE]

\* steam_api_poll_cb that hands the list over as g_slist_prepend built it
steam_api_poll_cb_noreverse(w, r, doc) ==
    LET w1 == IF steam_util_json_int(doc, "messagelast")
              THEN [w EXCEPT !.api.lmid = doc.messagelast] ELSE w
    IN  IF /\ steam_util_json_str(doc, "error")
           /\ ~StrCaseEq(doc.error, StrTimeout)
           /\ ~StrCaseEq(doc.error, StrOK)
        THEN IF StrCaseEq(doc.error, StrNLO)
             THEN [steam_http_req_resend(steam_api_relogon(w1), r) EXCEPT !.callf = FALSE]
             ELSE [SetErr(w1, r, "POLL", doc.error) EXCEPT !.callf = TRUE]
        ELSE IF ~steam_util_json_val(doc, "messages")
        THEN [w1 EXCEPT !.callf = TRUE]
        ELSE [w1 EXCEPT !.rdata = PollLoop(w1, doc.messages.values, 1, <<>>),
                        !.callf = TRUE]

\* steam_api_poll_cb that takes messagelast only from a response without
\* an error
steam_api_poll_cb_lmidlate(w, r, doc) ==
    LET w1 == IF steam_util_json_int(doc, "messagelast")
              THEN [w EXCEPT !.api.lmid = doc.messagelast] ELSE w
    IN  IF /\ steam_util_json_str(doc, "error")
           /\ ~StrCaseEq(doc.error, StrTimeout)
           /\ ~StrCaseEq(doc.error, StrOK)
        THEN IF StrCaseEq(doc.error, StrNLO)
             THEN [steam_http_req_resend(steam_api_relogon(w), r) EXCEPT !.callf = FALSE]
             ELSE [SetErr(w, r, "POLL", doc.error) EXCEPT !.callf = TRUE]
        ELSE IF ~steam_util_json_val(doc, "messages")
        THEN [w1 EXCEPT !.callf = TRUE]
        ELSE [w1 EXCEPT !.rdata = g_slist_reverse(PollLoop(w1, doc.messages.values, 1, <<>>)),
                        !.callf = TRUE]

\* steam_api_poll_cb
steam_api_poll_cb(w, r, doc) ==
    LET w1 == IF steam_util_json_int(doc, "messagelast")
              THEN [w EXCEPT !.api.lmid = doc.messagelast] ELSE w
    IN  IF /\ steam_util_json_str(doc, "error")
           /\ ~StrCaseEq(doc.error, StrTimeout)
           /\ ~StrCaseEq(doc.error, StrOK)
        THEN IF StrCaseEq(doc.error, StrNLO)
             THEN [steam_http_req_resend(steam_api_relogon(w1), r) EXCEPT !.callf = FALSE]
             ELSE [SetErr(w1, r, "POLL", doc.error) EXCEPT !.callf = TRUE]
        ELSE IF ~steam_util_json_val(doc, "messages")
        THEN [w1 EXCEPT !.callf = TRUE]
        ELSE [w1 EXCEPT !.rdata = g_slist_reverse(PollLoop(w1, doc.messages.values, 1, <<>>)),
                        !.callf = TRUE]

RECURSIVE SummariesLoop(_, _, _, _)
\* the loop of steam_api_summaries_cb; in is the local the state is read
\* from, which an entry without personastate leaves as it was
SummariesLoop(arr, i, in, mu) ==
    IF i > Len(arr) THEN mu
    ELSE LET je == arr[i]
             in1 == IF steam_util_json_int(je, "personastate") THEN je.personastate ELSE in
         IN  IF ~json_id(je, "steamid")
             THEN SummariesLoop(arr, i + 1, in, mu)
             ELSE SummariesLoop(arr, i + 1, in1,
                                <<[steamid |-> je.steamid, state |-> in1]>> \o mu)

\* steam_api_summaries_cb
steam_api_summaries_cb(w, r, doc) ==
    IF ~steam_util_json_val(doc, "players")
    THEN [SetErr(w, r, "SUMMARIES", StrNoFriends) EXCEPT !.callf = TRUE]
    ELSE LET mu == SummariesLoop(doc.players.values, 1, doc.uninit, <<>>)
             w1 == [w EXCEPT !.rdata = mu, !.callf = TRUE]
         IN  IF mu # <<>> THEN w1
             ELSE SetErr(w1, r, "SUMMARIES", StrNoFriends)

(* ------------------------------------------------------------------ *)
(* The response dispatcher                                             *)
(* ------------------------------------------------------------------ *)

\* steam_api_type_str
steam_api_type_str(type) ==
    CASE type = STEAM_API_TYPE_AUTH -> "Authentication"
      [] type = STEAM_API_TYPE_FRIENDS -> "Friends"
      [] type = STEAM_API_TYPE_LOGON -> "Logon"
      [] type = STEAM_API_TYPE_RELOGON -> "Relogon"
      [] type = STEAM_API_TYPE_LOGOFF -> "Logoff"
      [] type = STEAM_API_TYPE_MESSAGE -> "Message"
      [] type = STEAM_API_TYPE_POLL -> "Polling"
      [] type = STEAM_API_TYPE_SUMMARIES -> "Summaries"
      [] OTHER -> "Generic"

\* the table saf[] of steam_api_cb
saf(type, w, r, doc) ==
    CASE type = STEAM_API_TYPE_AUTH -> steam_api_auth_cb(w, r, doc)
      [] type = STEAM_API_TYPE_FRIENDS -> steam_api_friends_cb(w, r, doc)
      [] type = STEAM_API_TYPE_LOGON -> steam_api_logon_cb(w, r, doc)
      [] type = STEAM_API_TYPE_RELOGON -> steam_api_relogon_cb(w, r, doc)
      [] type = STEAM_API_TYPE_LOGOFF -> steam_api_logoff_cb(w, r, doc)
      [] type = STEAM_API_TYPE_MESSAGE -> steam_api_message_cb(w, r, doc)
      [] type = STEAM_API_TYPE_POLL -> steam_api_poll_cb(w, r, doc)
      [] type = STEAM_API_TYPE_SUMMARIES -> steam_api_summaries_cb(w, r, doc)

StrParser == <<"P", "a", "r", "s", "e", "r", ":", " ", "s", "y", "n", "t", "a", "x">>
StrHttp == <<"H", "T", "T", "P", ":", " ", "t", "i", "m", "e", "o", "u", "t">>

\* the invocation of priv->func, with the shape of the operation's family
CallFunc(w, r) ==
    LET list == w.reqs[r].type \in {STEAM_API_TYPE_FRIENDS, STEAM_API_TYPE_POLL,
                                    STEAM_API_TYPE_SUMMARIES}
    IN  Ev([w EXCEPT !.reqs[r].calls = @ + 1,
                     !.dlv = [shape |-> IF list THEN "list" ELSE "plain",
                              err |-> w.reqs[r].err,
                              rdata |-> IF list THEN w.rdata ELSE <<>>]],
           "call", r)

\* steam_api_cb that prefixes the error inside the block of the parse
\* callback, so that an error of the transport or of the JSON parser
\* keeps its message as it came
steam_api_cb_parsepfx(w, r, resp) ==
    LET priv == w.reqs[r]
    IN  IF priv.type < 0 \/ priv.type > STEAM_API_TYPE_LAST THEN w
        ELSE
        LET w1 == CASE resp.kind = "terr" ->
                         [w EXCEPT !.reqs[r].err =
                             [code |-> "HTTP", msg |-> StrHttp, pfx |-> <<>>]]
                    [] resp.kind = "badjson" -> SetErr(w, r, "PARSER", StrParser)
                    [] OTHER -> w
            w2 == IF w1.reqs[r].err = NoErr /\ resp.kind = "ok"
                  THEN saf(priv.type, w1, r, resp.doc)
                  ELSE w1
            w3 == IF w2.reqs[r].err # NoErr /\ resp.kind = "ok"
                  THEN [w2 EXCEPT !.reqs[r].err.pfx =
                                     <<steam_api_type_str(priv.type)>> \o @]
                  ELSE w2
        IN  IF w3.callf /\ priv.func THEN CallFunc(w3, r) ELSE w3

\* steam_api_cb that clears req->err without handing it to priv->err
steam_api_cb_lostterr(w, r, resp) ==
    LET priv == w.reqs[r]
    IN  IF priv.type < 0 \/ priv.type > STEAM_API_TYPE_LAST THEN w
        ELSE
        LET w1 == CASE resp.kind = "badjson" -> SetErr(w, r, "PARSER", StrParser)
                    [] OTHER -> w
            w2 == IF w1.reqs[r].err = NoErr /\ resp.kind = "ok"
                  THEN saf(priv.type, w1, r, resp.doc)
                  ELSE w1
            w3 == IF w2.reqs[r].err # NoErr
                  THEN [w2 EXCEPT !.reqs[r].err.pfx =
                                     <<steam_api_type_str(priv.type)>> \o @]
                  ELSE w2
        IN  IF w3.callf /\ priv.func THEN CallFunc(w3, r) ELSE w3

\* steam_api_cb: resp.kind is "terr" (req->err is set), "badjson"
\* (json_parse_ex returns NULL) or "ok" (resp.doc is the parsed document)
steam_api_cb(w, r, resp) ==
    LET priv == w.reqs[r]
    IN  IF priv.type < 0 \/ priv.type > STEAM_API_TYPE_LAST THEN w
        ELSE
        LET w1 == CASE resp.kind = "terr" ->
                         [w EXCEPT !.reqs[r].err =
                             [code |-> "HTTP", msg |-> StrHttp, pfx |-> <<>>]]
                    [] resp.kind = "badjson" -> SetErr(w, r, "PARSER", StrParser)
                    [] OTHER -> w
            w2 == IF w1.reqs[r].err = NoErr /\ resp.kind = "ok"
                  THEN saf(priv.type, w1, r, resp.doc)
                  ELSE w1
            w3 == IF w2.reqs[r].err # NoErr
                  THEN [w2 EXCEPT !.reqs[r].err.pfx =
                                     <<steam_api_type_str(priv.type)>> \o @]
                  ELSE w2
        IN  IF w3.callf /\ priv.func THEN CallFunc(w3, r) ELSE w3

(* ------------------------------------------------------------------ *)
(* What the server and the network may answer                          *)
(* ------------------------------------------------------------------ *)

NoArray == [present |-> FALSE, values |-> <<>>]

\* the parsed documents a request of the type may be answered with.  A
\* SendMessage, Logon, Relogon or Logoff document carries an "error" string.
Docs(type) ==
    CASE type = STEAM_API_TYPE_AUTH ->
            [access_token : 0..MaxVal, x_errorcode : {NullStr, StrGuard},
             error_description : {StrDenied}]
      [] type = STEAM_API_TYPE_LOGON ->
            [error : {StrOK, StrDenied}, message : -1..MaxVal,
             steamid : 0..MaxVal, umqid : 0..MaxVal]
      [] type = STEAM_API_TYPE_POLL ->
            [messagelast : -1..MaxVal, error : ErrStrs \cup {NullStr},
             messages : {NoArray}]
      [] OTHER -> [error : ErrStrs]

NoDoc == [error |-> NullStr]

Responses(type) ==
    {[kind |-> "terr", doc |-> NoDoc], [kind |-> "badjson", doc |-> NoDoc]}
    \cup {[kind |-> "ok", doc |-> d] : d \in Docs(type)}

\* the sequences over S of length n at most
SeqsUpTo(S, n) == UNION {[1..k -> S] : k \in 0..n}

\* the JSON arrays with the entries of S
Arrays(S) == {[present |-> TRUE, values |-> v] : v \in SeqsUpTo(S, MaxArr)}

StrIgnored == <<"i", "g", "n", "o", "r", "e", "d">>
StrHi == <<"h", "i">>
StrBob == <<"b", "o", "b">>
StrBogus == <<"b", "o", "g", "u", "s">>
StrPersonaState == <<"P", "e", "r", "s", "o", "n", "a", "S", "t", "a", "t", "e">>

\* an entry of the "friends" array: 0 is the absent steamid
FriendEntries == [relationship : {StrFriend, StrIgnored, NullStr}, steamid : 0..(MaxVal + 1)]

\* an entry of the "messages" array
PollMsg(from, type, text, name, state) ==
    [steamid_from |-> from, type |-> type, text |-> text, persona_name |-> name,
     persona_state |-> state]

\* the entries of "messages" the server may send: from the account itself
\* (MaxVal, the id InitLoggedOn holds) or another, of every kind, with and
\* without the fields the kind requires, and with a presence state inside
\* (4) and outside (7) the enumeration; -1 is the absent integer
PollEntries ==
    {PollMsg(MaxVal, steam_message_type_str("SAYTEXT"), StrHi, NullStr, -1),
     PollMsg(MaxVal + 1, steam_message_type_str("SAYTEXT"), StrHi, NullStr, -1),
     PollMsg(MaxVal + 1, steam_message_type_str("SAYTEXT"), NullStr, NullStr, -1),
     PollMsg(MaxVal + 1, steam_message_type_str("EMOTE"), StrHi, NullStr, -1),
     PollMsg(MaxVal + 1, StrPersonaState, NullStr, StrBob, 7),
     PollMsg(MaxVal + 1, steam_message_type_str("STATE"), NullStr, NullStr, 4),
     PollMsg(MaxVal + 1, steam_message_type_str("STATE"), NullStr, StrBob, -1),
     PollMsg(MaxVal + 1, steam_message_type_str("RELATIONSHIP"), NullStr, NullStr, 4),
     PollMsg(MaxVal + 1, steam_message_type_str("RELATIONSHIP"), NullStr, NullStr, -1),
     PollMsg(0, steam_message_type_str("TYPING"), NullStr, NullStr, -1),
     PollMsg(MaxVal + 1, steam_message_type_str("LEFT_CONV"), NullStr, NullStr, -1),
     PollMsg(MaxVal + 1, StrBogus, NullStr, NullStr, -1),
     PollMsg(MaxVal + 1, NullStr, NullStr, NullStr, -1)}

\* an entry of the "players" array
SummaryEntries == [steamid : 0..(MaxVal + 1), personastate : {-1, 1, 7}]

\* the parsed documents Parse answers a request with: those of Docs and,
\* for Friends, Poll and Summaries, documents with their arrays.  uninit is
\* what the local in of steam_api_summaries_cb holds before it is set.
RichDocs(type) ==
    CASE type = STEAM_API_TYPE_FRIENDS ->
            [friends : {NoArray} \cup Arrays(FriendEntries)]
      [] type = STEAM_API_TYPE_POLL ->
            Docs(type) \cup
            [messagelast : {-1, MaxVal}, error : {NullStr, StrDenied},
             messages : Arrays(PollEntries)]
      [] type = STEAM_API_TYPE_SUMMARIES ->
            [players : {NoArray} \cup Arrays(SummaryEntries), uninit : {0, 9}]
      [] OTHER -> Docs(type)

RichResponses(type) ==
    {[kind |-> "terr", doc |-> NoDoc], [kind |-> "badjson", doc |-> NoDoc]}
    \cup {[kind |-> "ok", doc |-> d] : d \in RichDocs(type)}

\* the response makes the parse callback start a Relogon
AsksRelogon(type, resp) ==
    /\ resp.kind = "ok"
    /\ type \in {STEAM_API_TYPE_MESSAGE, STEAM_API_TYPE_POLL}
    /\ StrCaseEq(resp.doc.error, StrNLO)

(* ------------------------------------------------------------------ *)
(* Actions                                                             *)
(* ------------------------------------------------------------------ *)

\* the handler's state becomes the state
CommitWorld(w, l) ==
    /\ api' = w.api
    /\ paused' = w.paused
    /\ queue' = w.queue
    /\ reqs' = w.reqs
    /\ last' = l
    /\ UNCHANGED <<sum, conv>>

\* a handler of the request machine other than Parse
Commit(w, l) ==
    /\ rsp' = rsp
    /\ CommitWorld(w, l)

\* what the handler did: op, the request, its type, the response and the
\* handler's own ev, callf and dlv
Last(op, r, type, w, resp) ==
    [op |-> op, r |-> r, type |-> type, kind |-> resp.kind,
     error |-> IF "error" \in DOMAIN resp.doc THEN resp.doc.error ELSE NullStr,
     callf |-> w.callf, ev |-> w.ev, dlv |-> w.dlv]

ApiCall == [kind |-> "call", doc |-> NoDoc]

IdleSum == [pc |-> "idle", friends |-> <<>>, func |-> FALSE, sent |-> <<>>,
            calls |-> <<>>, cursors |-> <<>>]

\* no presence-state conversion was called
IdleConv == [pc |-> "none", state |-> 0, str |-> NullStr, out |-> 0]

Init ==
    /\ sum = IdleSum
    /\ rsp = ApiCall
    /\ conv = IdleConv
    /\ api = [token |-> 0, umqid |-> 1, steamid |-> 0, lmid |-> 0]
    /\ paused = FALSE
    /\ queue = <<>>
    /\ reqs = [r \in ReqIds |-> FreeReq]
    /\ nuser = 0
    /\ last = [op |-> "init", r |-> 0, type |-> STEAM_API_TYPE_LAST, kind |-> "call",
               error |-> NullStr, callf |-> TRUE, ev |-> <<>>, dlv |-> NoDlv]

\* a public operation is invoked with or without a continuation
Auth ==
    /\ nuser < MaxUser
    /\ nuser' = nuser + 1
    /\ \E func \in BOOLEAN :
         LET w == steam_api_auth(World, nuser + 1, func)
         IN  Commit(w, Last("api", nuser + 1, STEAM_API_TYPE_AUTH, w, ApiCall))

Logon ==
    /\ nuser < MaxUser
    /\ nuser' = nuser + 1
    /\ \E func \in BOOLEAN :
         LET w == steam_api_logon(World, nuser + 1, func)
         IN  Commit(w, Last("api", nuser + 1, STEAM_API_TYPE_LOGON, w, ApiCall))

Message ==
    /\ nuser < MaxUser
    /\ nuser' = nuser + 1
    /\ \E func \in BOOLEAN, mtype \in MessageTypes :
         LET w == steam_api_message(World, nuser + 1, mtype, func)
         IN  Commit(w, Last("api", nuser + 1, STEAM_API_TYPE_MESSAGE, w, ApiCall))

Poll ==
    /\ nuser < MaxUser
    /\ nuser' = nuser + 1
    /\ \E func \in BOOLEAN :
         LET w == steam_api_poll(World, nuser + 1, func)
         IN  Commit(w, Last("api", nuser + 1, STEAM_API_TYPE_POLL, w, ApiCall))

\* the HTTP layer completes a request that is on the network: it runs the
\* request's callback, steam_api_cb, and then frees the request unless it
\* was resent.  The server answers "Not Logged On" only while fewer than
\* MaxRelogon Relogon requests are outstanding.
Complete(r) ==
    /\ reqs[r].st = "flight"
    /\ \E resp \in Responses(reqs[r].type) :
         /\ AsksRelogon(reqs[r].type, resp) => FreeRelogon(World) # {}
         /\ LET w == steam_http_req_done(steam_api_cb(World, r, resp), r)
            IN  Commit(w, Last("cb", r, reqs[r].type, w, resp))
    /\ UNCHANGED nuser

Friends ==
    /\ nuser < MaxUser
    /\ nuser' = nuser + 1
    /\ \E func \in BOOLEAN :
         LET w == steam_api_friends(World, nuser + 1, func)
         IN  Commit(w, Last("api", nuser + 1, STEAM_API_TYPE_FRIENDS, w, ApiCall))

Logoff ==
    /\ nuser < MaxUser
    /\ nuser' = nuser + 1
    /\ \E func \in BOOLEAN :
         LET w == steam_api_logoff(World, nuser + 1, func)
         IN  Commit(w, Last("api", nuser + 1, STEAM_API_TYPE_LOGOFF, w, ApiCall))

Summary ==
    /\ nuser < MaxUser
    /\ nuser' = nuser + 1
    /\ \E func \in BOOLEAN :
         LET w == steam_api_summary(World, nuser + 1, func)
         IN  Commit(w, Last("api", nuser + 1, STEAM_API_TYPE_SUMMARIES, w, ApiCall))

\* Complete with the documents of RichDocs; the response is kept in rsp
Parse(r) ==
    /\ reqs[r].st = "flight"
    /\ \E resp \in RichResponses(reqs[r].type) :
         /\ AsksRelogon(reqs[r].type, resp) => FreeRelogon(World) # {}
         /\ rsp' = resp
         /\ LET w == steam_http_req_done(steam_api_cb(World, r, resp), r)
            IN  CommitWorld(w, Last("cb", r, reqs[r].type, w, resp))
    /\ UNCHANGED nuser

Next ==
    \/ Auth
    \/ Logon
    \/ Message
    \/ Poll
    \/ \E r \in ReqIds : Complete(r)

Spec == Init /\ [][Next]_vars

\* the Session of steam_api_new before any request
NewWorld ==
    [api |-> [token |-> 0, umqid |-> 1, steamid |-> 0, lmid |-> 0],
     paused |-> FALSE, queue |-> <<>>, reqs |-> [r \in ReqIds |-> FreeReq],
     ev |-> <<>>, callf |-> TRUE, rdata |-> <<>>, dlv |-> NoDlv]

\* the answer to a Logon that succeeds
LogonOK ==
    [kind |-> "ok",
     doc |-> [error |-> StrOK, message |-> -1, steamid |-> MaxVal, umqid |-> MaxVal]]

\* the state once the first operation, a Logon with a continuation, has
\* been answered LogonOK: steam_api_logon, then steam_api_cb on its request
InitLoggedOn ==
    LET w1 == steam_api_logon(NewWorld, 1, TRUE)
        w2 == [w1 EXCEPT !.ev = <<>>]
        w3 == steam_http_req_done(steam_api_cb(w2, 1, LogonOK), 1)
    IN  /\ sum = IdleSum
        /\ rsp = ApiCall
        /\ conv = IdleConv
        /\ api = w3.api
        /\ paused = w3.paused
        /\ queue = w3.queue
        /\ reqs = w3.reqs
        /\ nuser = 1
        /\ last = Last("cb", 1, STEAM_API_TYPE_LOGON, w3, LogonOK)

\* a logged-on session that sends or polls, under an HTTP layer that
\* completes every request that is on the network
NextRetry ==
    \/ Message
    \/ Poll
    \/ \E r \in ReqIds : Complete(r)

FairSpec ==
    InitLoggedOn /\ [][NextRetry]_vars /\ \A r \in ReqIds : WF_vars(Complete(r))

\* a logged-on session that invokes one operation of any kind, answered
\* with the documents of RichDocs
NextCb ==
    \/ Auth
    \/ Friends
    \/ Logon
    \/ Logoff
    \/ Message
    \/ Poll
    \/ Summary
    \/ \E r \in ReqIds : Parse(r)

SpecCb == InitLoggedOn /\ [][NextCb]_vars

(* ------------------------------------------------------------------ *)
(* Properties of the dispatcher, the relogon controller and the queue  *)
(* (Spec, FairSpec)                                                    *)
(* ------------------------------------------------------------------ *)

\* the last step was steam_api_cb
IsCb == last.op = "cb"

\* the last step dispatched a parsed response whose "error" is
\* "Not Logged On" in any letter case
LastNLO ==
    /\ IsCb
    /\ last.kind = "ok"
    /\ last.type \in {STEAM_API_TYPE_MESSAGE, STEAM_API_TYPE_POLL}
    /\ StrCaseEq(last.error, StrNLO)

\* the last step did e to request r
HasEv(e, r) == \E i \in 1..Len(last.ev) : last.ev[i] = [e |-> e, r |-> r]

\* the Relogon requests on the network
RelogonsOut == {r \in RelogonIds : reqs[r].st = "flight"}

\* C1: a SendMessage response with error "Not Logged On" (any case) makes
\* the dispatcher pause the queue, then send exactly one Relogon request
\* without continuation, then resend the original request; the continuation
\* is not invoked and no error is recorded for that attempt, and a
\* continuation is invoked only by an attempt whose outcome is delivered,
\* which ends the request.
C1_NotLoggedOnSend ==
    /\ (LastNLO /\ last.type = STEAM_API_TYPE_MESSAGE) =>
         /\ \E rl \in RelogonIds :
              /\ last.ev = <<[e |-> "pause", r |-> 0], [e |-> "send", r |-> rl],
                             [e |-> "resend", r |-> last.r]>>
              /\ reqs[rl].type = STEAM_API_TYPE_RELOGON
              /\ ~reqs[rl].func
         /\ ~last.callf
         /\ last.dlv = NoDlv
         /\ reqs[last.r].calls = 0
         /\ reqs[last.r].err = NoErr
         /\ reqs[last.r].st \in {"wait", "flight"}
    /\ (IsCb /\ HasEv("call", last.r)) => (last.callf /\ reqs[last.r].st = "done")
    /\ \A r \in UserIds : reqs[r].calls > 0 => reqs[r].st = "done"

\* a send answered "not logged on" in lower case was resent and its second
\* attempt has just been delivered to the continuation
C1_Witness ==
    /\ IsCb
    /\ last.type = STEAM_API_TYPE_MESSAGE
    /\ HasEv("call", last.r)
    /\ reqs[last.r].resends >= 1
    /\ reqs[last.r].calls = 1

\* C2: the continuation of one invocation is invoked at most once, and an
\* attempt whose parse callback returned FALSE does not invoke it.
C2_ContinuationAtMostOnce ==
    /\ \A r \in ReqIds : reqs[r].calls <= 1
    /\ (IsCb /\ ~last.callf) =>
         /\ ~HasEv("call", last.r)
         /\ last.dlv = NoDlv
         /\ reqs[last.r].calls = 0

\* a Poll was silently retried and its later attempt, a transport failure,
\* reached the continuation once
C2_Witness ==
    /\ IsCb
    /\ last.type = STEAM_API_TYPE_POLL
    /\ last.kind = "terr"
    /\ reqs[last.r].resends >= 1
    /\ reqs[last.r].calls = 1

\* C3 as claimed: the silent resubmissions are finitely many (from some
\* point on no step is a silent retry), under a network that completes
\* every request.
C3_BoundedRetry == <>[][~(last'.op = "cb" /\ ~last'.callf)]_vars

\* C3 as amended: the retry has no bound.  Every "Not Logged On" response
\* to a SendMessage or Poll attempt, however many came before, starts one
\* Relogon and resends the request without invoking the continuation; an
\* attempt with any other outcome ends the request and invokes the
\* continuation, if there is one, once.
C3_RetryPerNotLoggedOn ==
    (IsCb /\ last.type \in {STEAM_API_TYPE_MESSAGE, STEAM_API_TYPE_POLL}) =>
        IF LastNLO
        THEN /\ ~last.callf
             /\ HasEv("resend", last.r)
             /\ \E rl \in RelogonsOut : HasEv("send", rl)
             /\ reqs[last.r].st \in {"wait", "flight"}
             /\ reqs[last.r].calls = 0
        ELSE /\ last.callf
             /\ reqs[last.r].st = "done"
             /\ reqs[last.r].calls = IF reqs[last.r].func THEN 1 ELSE 0

\* a request was resent MaxCount times or more and then delivered
C3_Witness ==
    \E r \in UserIds :
        /\ reqs[r].func
        /\ reqs[r].resends = MaxCount
        /\ reqs[r].calls = 1

\* C4: every completed Relogon attempt leaves the queue unpaused, and the
\* queue is never paused while no Relogon request is outstanding.
C4_RelogonUnpauses ==
    /\ (IsCb /\ last.type = STEAM_API_TYPE_RELOGON) => ~paused
    /\ paused => RelogonsOut # {}

\* C5: while a Relogon request is outstanding the queue is paused and no
\* queued request goes to the network.
C5_PausedWhileRelogon ==
    RelogonsOut # {} =>
        /\ paused
        /\ \A r \in UserIds : ~(reqs[r].queued /\ HasEv("send", r))

\* the sends that were handed to the HTTP layer
Sends == {r \in UserIds : reqs[r].type = STEAM_API_TYPE_MESSAGE
                          /\ reqs[r].st \in {"wait", "flight", "done"}}

\* the request went to the network at least once
WasSent(r) == reqs[r].st \in {"flight", "done"} \/ reqs[r].resends > 0

\* C6: sends reach the network in submission order and none is lost: the
\* queue holds exactly the unfinished sends, oldest first, only its head is
\* on the network, and a send goes out for the first time only when every
\* earlier send is finished.
C6_SendsInOrder ==
    /\ {queue[i] : i \in 1..Len(queue)} = {r \in Sends : reqs[r].st # "done"}
    /\ \A i, j \in 1..Len(queue) : i < j => queue[i] < queue[j]
    /\ \A a, b \in Sends : (a < b /\ WasSent(b)) => reqs[a].st = "done"

\* the first send was answered "Not Logged On" while the second waited,
\* was resent and finished, and the second is on the network
C6_Witness ==
    \E a, b \in Sends :
        /\ a < b
        /\ reqs[a].resends >= 1
        /\ reqs[a].st = "done"
        /\ reqs[b].st = "flight"

\* C7 as claimed: a request resent after "Not Logged On" carries the
\* Session's token and queue id of the moment it is resent.
C7_ResendCarriesCurrentSession ==
    (LastNLO /\ HasEv("resend", last.r)) =>
        /\ reqs[last.r].tok = api.token
        /\ reqs[last.r].umq = api.umqid

\* C7 as amended: a resent request is the original request sent again; it
\* carries the token and the queue id the Session had when the request was
\* built, also when the Session has other values by then.
C7_ResendCarriesBuildValues ==
    \A r \in ReqIds : reqs[r].st \in {"wait", "flight"} =>
        /\ reqs[r].tok = reqs[r].btok
        /\ reqs[r].umq = reqs[r].bumq

\* a request built before the token changed has been resent with the old
\* token
C7_Witness ==
    /\ LastNLO
    /\ HasEv("resend", last.r)
    /\ reqs[last.r].tok # api.token

\* C11: Session.lastMessageId (api->lmid) never decreases: every step
\* leaves it greater than or equal to what it was, whatever "message" and
\* "messagelast" values the Logon and Poll responses carry.
C11_LastMessageIdNeverDecreases == [][api'.lmid >= api.lmid]_vars

(* ------------------------------------------------------------------ *)
(* Properties of one dispatch (SpecCb)                                 *)
(* ------------------------------------------------------------------ *)

\* C12 as claimed: the Session fields change only when a Logon, Relogon
\* or Poll response is dispatched.
C12_OnlyLogonRelogonPoll ==
    [][api' # api =>
         /\ last'.op = "cb"
         /\ last'.type \in {STEAM_API_TYPE_LOGON, STEAM_API_TYPE_RELOGON,
                            STEAM_API_TYPE_POLL}]_vars

\* C12 as amended: the Session fields change only when a parsed Auth,
\* Logon or Poll response is dispatched: Auth writes the token only, Logon
\* the queue id, the account id and the last message id, Poll the last
\* message id only.  Every other dispatch (Friends, Relogon, Logoff,
\* SendMessage, Summaries, a transport failure, a body that is not JSON)
\* and every request-building operation leaves all four as they were.
C12_OnlyAuthLogonPoll ==
    [][api' # api =>
         /\ last'.op = "cb"
         /\ last'.kind = "ok"
         /\ \/ /\ last'.type = STEAM_API_TYPE_AUTH
               /\ api' = [api EXCEPT !.token = api'.token]
            \/ /\ last'.type = STEAM_API_TYPE_LOGON
               /\ api'.token = api.token
            \/ /\ last'.type = STEAM_API_TYPE_POLL
               /\ api' = [api EXCEPT !.lmid = api'.lmid]]_vars

\* an Auth response has just set the token
C12_Witness ==
    /\ IsCb
    /\ last.type = STEAM_API_TYPE_AUTH
    /\ rsp.kind = "ok"
    /\ api.token # 0
    /\ api.token = rsp.doc.access_token

\* how often x occurs in seq
Count(seq, x) == Cardinality({i \in DOMAIN seq : seq[i] = x})

\* the last step dispatched a parsed response to a request of the type
\* and handed its outcome to the continuation
Delivered(type) ==
    /\ IsCb
    /\ last.type = type
    /\ rsp.kind = "ok"
    /\ last.dlv.shape # "none"

\* the entries of the "friends" array of the response
FriendsOf(doc) == IF doc.friends.present THEN doc.friends.values ELSE <<>>

\* C13: the id list handed to the continuation of a Friends request holds
\* exactly the account ids of the entries whose relationship is "friend"
\* and that carry an id, each as often as the response has it, and no id
\* of an entry with another relationship; when that list is empty or the
\* array is absent the continuation gets the error FRIENDS, else no error.
C13_FriendsOnly ==
    Delivered(STEAM_API_TYPE_FRIENDS) =>
        LET arr  == FriendsOf(rsp.doc)
            kept == SelectSeq(arr, LAMBDA je : je.relationship = StrFriend
                                               /\ je.steamid # 0)
        IN  /\ Len(last.dlv.rdata) = Len(kept)
            /\ \A id \in 1..(MaxVal + 1) :
                  Count(last.dlv.rdata, id) =
                      Cardinality({i \in DOMAIN kept : kept[i].steamid = id})
            /\ kept = <<>> => last.dlv.err.code = "FRIENDS"
            /\ kept # <<>> => last.dlv.err = NoErr

\* a response with a friend and an entry of another relationship that
\* carries another id: the friend alone was delivered
C13_Witness ==
    /\ Delivered(STEAM_API_TYPE_FRIENDS)
    /\ \E i, j \in DOMAIN FriendsOf(rsp.doc) :
          /\ FriendsOf(rsp.doc)[i].relationship = StrFriend
          /\ FriendsOf(rsp.doc)[i].steamid # 0
          /\ FriendsOf(rsp.doc)[j].relationship = StrIgnored
          /\ FriendsOf(rsp.doc)[j].steamid # 0
          /\ FriendsOf(rsp.doc)[j].steamid # FriendsOf(rsp.doc)[i].steamid
    /\ Len(last.dlv.rdata) = 1
    /\ last.dlv.err = NoErr

\* the entries of the "messages" array of the response
MessagesOf(doc) == IF doc.messages.present THEN doc.messages.values ELSE <<>>

\* the entry names a message kind and carries the fields the kind requires
ValidEntry(je) ==
    /\ je.type # NullStr
    /\ LET t == steam_message_type_from_str(je.type)
       IN  \/ t \in {"SAYTEXT", "EMOTE"} /\ je.text # NullStr
           \/ t = "STATE" /\ je.persona_name # NullStr /\ je.persona_state >= 0
           \/ t = "RELATIONSHIP" /\ je.persona_state >= 0
           \/ t \in {"TYPING", "LEFT_CONV"}

\* the entry carries a steamid_from (0 is the absent one), and it is the
\* Session's account id
FromSelf(je) == je.steamid_from # 0 /\ je.steamid_from = api.steamid

\* C14: of a Poll response that is delivered without error, no message
\* whose steamid_from is the Session's own account id reaches the
\* continuation, and the valid messages of the others reach it in the
\* order of the response array.
C14_OwnMessagesSkipped ==
    (Delivered(STEAM_API_TYPE_POLL) /\ last.dlv.err = NoErr) =>
        LET arr  == MessagesOf(rsp.doc)
            kept == SelectSeq(arr, LAMBDA je : ~FromSelf(je) /\ ValidEntry(je))
            d    == last.dlv.rdata
        IN  /\ \A i \in DOMAIN d : d[i].steamid # 0 => d[i].steamid # api.steamid
            /\ Len(d) = Len(kept)
            /\ \A i \in DOMAIN d :
                  /\ d[i].steamid = kept[i].steamid_from
                  /\ d[i].type = steam_message_type_from_str(kept[i].type)
                  /\ d[i].text = kept[i].text

\* the response carried a message of the account itself and then one of
\* another account: the second alone was delivered
C14_Witness ==
    /\ Delivered(STEAM_API_TYPE_POLL)
    /\ last.dlv.err = NoErr
    /\ Len(MessagesOf(rsp.doc)) = 2
    /\ FromSelf(MessagesOf(rsp.doc)[1])
    /\ ValidEntry(MessagesOf(rsp.doc)[1])
    /\ Len(last.dlv.rdata) = 1
    /\ last.dlv.rdata[1].steamid = MessagesOf(rsp.doc)[2].steamid_from

\* the display names of the operation kinds, as C16 lists them
DisplayName(type) ==
    CASE type = STEAM_API_TYPE_AUTH -> "Authentication"
      [] type = STEAM_API_TYPE_FRIENDS -> "Friends"
      [] type = STEAM_API_TYPE_LOGON -> "Logon"
      [] type = STEAM_API_TYPE_RELOGON -> "Relogon"
      [] type = STEAM_API_TYPE_LOGOFF -> "Logoff"
      [] type = STEAM_API_TYPE_MESSAGE -> "Message"
      [] type = STEAM_API_TYPE_POLL -> "Polling"
      [] type = STEAM_API_TYPE_SUMMARIES -> "Summaries"

\* the error kinds the parse callback of the operation kind sets
ParseErrorKinds(type) ==
    CASE type = STEAM_API_TYPE_AUTH -> {"AUTH", "AUTH_REQ"}
      [] type = STEAM_API_TYPE_FRIENDS -> {"FRIENDS"}
      [] type = STEAM_API_TYPE_LOGON -> {"LOGON"}
      [] type = STEAM_API_TYPE_RELOGON -> {"RELOGON"}
      [] type = STEAM_API_TYPE_LOGOFF -> {"LOGOFF"}
      [] type = STEAM_API_TYPE_MESSAGE -> {"MESSAGE"}
      [] type = STEAM_API_TYPE_POLL -> {"POLL"}
      [] type = STEAM_API_TYPE_SUMMARIES -> {"SUMMARIES"}

\* C16: every error handed to a continuation carries the display name of
\* the request's operation kind as its prefix, once, and the kind it was
\* set with: that of the transport, of the JSON parser or of the parse
\* callback.
C16_ErrorPrefixedOnce ==
    (IsCb /\ last.dlv.shape # "none" /\ last.dlv.err # NoErr) =>
        /\ last.dlv.err.pfx = <<DisplayName(last.type)>>
        /\ rsp.kind = "terr" => last.dlv.err.code = "HTTP" /\ last.dlv.err.msg = StrHttp
        /\ rsp.kind = "badjson" => last.dlv.err.code = "PARSER"
        /\ rsp.kind = "ok" => last.dlv.err.code \in ParseErrorKinds(last.type)

\* a Poll that was silently retried ended in a transport failure, which
\* reached the continuation as "Polling: ..."
C16_Witness ==
    /\ IsCb
    /\ last.type = STEAM_API_TYPE_POLL
    /\ rsp.kind = "terr"
    /\ reqs[last.r].resends >= 1
    /\ last.dlv.err.code = "HTTP"
    /\ last.dlv.err.pfx = <<"Polling">>

\* C17: a dispatch of a transport failure or of a body that is not JSON,
\* for a request of any kind, runs no parse callback: the Session and the
\* paused flag stay as they were, nothing is paused, unpaused or resent, no
\* Relogon is sent (the one thing that may go out is the next queued
\* request, once this one has ended), the request ends, and its
\* continuation, if it has one, is invoked once with the one error of that
\* kind, else nothing is invoked.
C17_TransportErrorSkipsParsing ==
    [][(last'.op = "cb" /\ rsp'.kind \in {"terr", "badjson"}) =>
          /\ api' = api
          /\ paused' = paused
          /\ \A i \in DOMAIN last'.ev :
                \/ last'.ev[i] = [e |-> "call", r |-> last'.r]
                \/ /\ last'.ev[i].e = "send"
                   /\ last'.ev[i].r \in UserIds \ {last'.r}
                   /\ reqs[last'.ev[i].r].queued
          /\ reqs'[last'.r].st \in {"done", "free"}
          /\ IF reqs[last'.r].func
             THEN /\ Count(last'.ev, [e |-> "call", r |-> last'.r]) = 1
                  /\ last'.dlv.err.code = IF rsp'.kind = "terr" THEN "HTTP" ELSE "PARSER"
                  /\ Len(last'.dlv.err.pfx) = 1
                  /\ last'.dlv.rdata = <<>>
             ELSE /\ Count(last'.ev, [e |-> "call", r |-> last'.r]) = 0
                  /\ last'.dlv = NoDlv]_vars

\* a Relogon ended in a transport failure while the queue was paused:
\* the queue is still paused
C17_Witness ==
    /\ IsCb
    /\ last.type = STEAM_API_TYPE_RELOGON
    /\ rsp.kind = "terr"
    /\ paused
    /\ last.ev = <<>>

\* the "error" of a Poll response that ends the poll without an error
PollQuiet(error) ==
    \/ error = NullStr
    \/ StrCaseEq(error, StrTimeout)
    \/ StrCaseEq(error, StrOK)

\* C18: a dispatch of a parsed Poll response sets lmid to messagelast when
\* the response has one, whatever its "error" says, and leaves it alone
\* otherwise; with "error" absent, "Timeout" or "OK" in any letter case
\* the request ends and no error reaches the continuation; with
\* "Not Logged On" the request is resent, nothing is invoked and no error
\* is recorded; with any other value the request ends and the
\* continuation, if there is one, gets the error POLL with the server's
\* text and no message.
C18_PollErrorField ==
    [][(last'.op = "cb" /\ last'.type = STEAM_API_TYPE_POLL /\ rsp'.kind = "ok") =>
          LET doc == rsp'.doc
              r   == last'.r
          IN  /\ api'.lmid = IF doc.messagelast >= 0 THEN doc.messagelast ELSE api.lmid
              /\ PollQuiet(doc.error) =>
                    /\ last'.callf
                    /\ reqs'[r].st \in {"done", "free"}
                    /\ last'.dlv.err = NoErr
                    /\ reqs[r].func => last'.dlv.shape # "none"
              /\ StrCaseEq(doc.error, StrNLO) =>
                    /\ ~last'.callf
                    /\ last'.dlv = NoDlv
                    /\ Count(last'.ev, [e |-> "resend", r |-> r]) = 1
                    /\ reqs'[r].st = "flight"
              /\ (~PollQuiet(doc.error) /\ ~StrCaseEq(doc.error, StrNLO)) =>
                    /\ last'.callf
                    /\ reqs'[r].st \in {"done", "free"}
                    /\ IF reqs[r].func
                       THEN /\ last'.dlv.err.code = "POLL"
                            /\ last'.dlv.err.msg = doc.error
                            /\ last'.dlv.rdata = <<>>
                       ELSE last'.dlv = NoDlv]_vars

\* a Poll response with a messagelast, the error "Denied" and a message
\* in its array: lmid was taken, the continuation got POLL and no message
C18_Witness ==
    /\ IsCb
    /\ last.type = STEAM_API_TYPE_POLL
    /\ rsp.kind = "ok"
    /\ rsp.doc.error = StrDenied
    /\ rsp.doc.messagelast = MaxVal
    /\ Len(MessagesOf(rsp.doc)) >= 1
    /\ api.lmid = MaxVal
    /\ last.dlv.err.code = "POLL"
    /\ last.dlv.rdata = <<>>

\* the requests the queue holds
InQueue == {queue[i] : i \in DOMAIN queue}

\* C19: a request that is flagged QUEUED, that is in the queue or that
\* waits for the queue is a SendMessage request; a request of any other
\* kind is on the network as soon as it is issued, paused queue or not;
\* the dispatch of "Not Logged On" leaves the queue paused with the
\* Relogon it issued on the network; and every Relogon request that
\* exists is on the network, where its response can be dispatched.
C19_OnlyMessagesQueued ==
    /\ \A r \in DOMAIN reqs :
          (reqs[r].queued \/ reqs[r].st = "wait" \/ r \in InQueue) =>
              reqs[r].type = STEAM_API_TYPE_MESSAGE
    /\ (last.op = "api" /\ last.type # STEAM_API_TYPE_MESSAGE) =>
          /\ HasEv("send", last.r)
          /\ reqs[last.r].st = "flight"
    /\ LastNLO =>
          /\ paused
          /\ \E rl \in RelogonsOut : HasEv("send", rl)
    /\ \A rl \in RelogonIds :
          reqs[rl].st # "free" =>
              /\ reqs[rl].type = STEAM_API_TYPE_RELOGON
              /\ reqs[rl].st = "flight"
              /\ ENABLED Parse(rl)

\* a SendMessage was answered "Not Logged On": it waits for the paused
\* queue while the Relogon that was issued in the same dispatch is on the
\* network
C19_Witness ==
    /\ LastNLO
    /\ last.type = STEAM_API_TYPE_MESSAGE
    /\ reqs[last.r].st = "wait"
    /\ paused
    /\ \E rl \in RelogonsOut : HasEv("send", rl)

\* C21: a dispatch of a parsed Logon response whose "error" is not "OK"
\* hands the error LOGON to the continuation and leaves the Session as it
\* was; one whose "error" is "OK" takes lmid from "message" when the
\* response has it, replaces steamid and umqid each only by a value the
\* server returned that differs from the one held, and leaves the token.
C21_LogonResponse ==
    [][(last'.op = "cb" /\ last'.type = STEAM_API_TYPE_LOGON /\ rsp'.kind = "ok") =>
          LET doc == rsp'.doc
          IN  IF ~StrCaseEq(doc.error, StrOK)
              THEN /\ api' = api
                   /\ reqs[last'.r].func => last'.dlv.err.code = "LOGON"
              ELSE /\ api'.token = api.token
                   /\ api'.lmid = IF doc.message >= 0 THEN doc.message ELSE api.lmid
                   /\ api'.steamid = IF doc.steamid # 0 /\ doc.steamid # api.steamid
                                     THEN doc.steamid ELSE api.steamid
                   /\ api'.umqid = IF doc.umqid # 0 /\ doc.umqid # api.umqid
                                   THEN doc.umqid ELSE api.umqid]_vars

(* ------------------------------------------------------------------ *)
(* steam_state_str and steam_state_from_str.  enum SteamState is       *)
(* declared in steam-api.h: the states in the order of the table strs. *)
(* ------------------------------------------------------------------ *)

STEAM_STATE_OFFLINE == 0
STEAM_STATE_ONLINE == 1
STEAM_STATE_BUSY == 2
STEAM_STATE_AWAY == 3
STEAM_STATE_SNOOZE == 4
STEAM_STATE_LAST == 5

\* steam_state_str, for the states of the enumeration and for the states
\* its test turns away (state == STEAM_STATE_LAST passes the test and reads
\* past the table: no value is given for it)
steam_state_str(state) ==
    CASE state = STEAM_STATE_OFFLINE -> <<"O", "f", "f", "l", "i", "n", "e">>
      [] state = STEAM_STATE_ONLINE -> <<"O", "n", "l", "i", "n", "e">>
      [] state = STEAM_STATE_BUSY -> <<"B", "u", "s", "y">>
      [] state = STEAM_STATE_AWAY -> <<"A", "w", "a", "y">>
      [] state = STEAM_STATE_SNOOZE -> <<"S", "n", "o", "o", "z", "e">>
      [] state < 0 \/ state > STEAM_STATE_LAST -> <<>>

\* steam_state_from_str whose loop stops one state early
steam_state_from_str_short(str) ==
    IF str = NullStr THEN STEAM_STATE_OFFLINE
    ELSE LET hits == {i \in 0..(STEAM_STATE_LAST - 2) :
                        StrCaseEq(str, steam_state_str(i))}
         IN  IF hits = {} THEN STEAM_STATE_OFFLINE
             ELSE CHOOSE i \in hits : \A j \in hits : i <= j

\* steam_state_from_str: the first state whose name matches, or Offline
steam_state_from_str(str) ==
    IF str = NullStr THEN STEAM_STATE_OFFLINE
    ELSE LET hits == {i \in 0..(STEAM_STATE_LAST - 1) :
                        StrCaseEq(str, steam_state_str(i))}
         IN  IF hits = {} THEN STEAM_STATE_OFFLINE
             ELSE CHOOSE i \in hits : \A j \in hits : i <= j

\* the place of a lower-case letter in the alphabet
LowerIdx ==
    [c \in {Lower[i] : i \in 1..Len(Lower)} |->
        CHOOSE i \in 1..Len(Lower) : Lower[i] = c]

\* the string in every mix of upper and lower case
CaseVariants(str) ==
    {[i \in 1..Len(str) |->
         LET c == g_ascii_tolower(str[i])
         IN  IF m[i] /\ c \in DOMAIN LowerIdx THEN Upper[LowerIdx[c]] ELSE c] :
     m \in [1..Len(str) -> BOOLEAN]}

StrSnoozing == <<"S", "n", "o", "o", "z", "i", "n", "g">>
StrOfflin == <<"O", "f", "f", "l", "i", "n">>

\* strings that name no state: the empty string, a prefix of a name, a
\* name with more letters, another word, and NULL
UnknownStates == {<<>>, StrOfflin, StrSnoozing, StrBogus, NullStr}

\* the calls: steam_state_str on a state of the enumeration followed by
\* steam_state_from_str on its result ("state"), or steam_state_from_str
\* on a string ("str"), whose state field is the state the string names
\* in some letter case, Offline if it names none
ConvCalls ==
    {[pc |-> "state", state |-> st, str |-> NullStr, out |-> 0] :
        st \in 0..(STEAM_STATE_LAST - 1)}
    \cup UNION {{[pc |-> "str", state |-> st, str |-> v, out |-> 0] :
                    v \in CaseVariants(steam_state_str(st))} :
                st \in 0..(STEAM_STATE_LAST - 1)}
    \cup {[pc |-> "str", state |-> STEAM_STATE_OFFLINE, str |-> v, out |-> 0] :
            v \in UnknownStates}

InitConv ==
    /\ sum = IdleSum
    /\ rsp = ApiCall
    /\ conv \in ConvCalls
    /\ api = [token |-> 0, umqid |-> 1, steamid |-> 0, lmid |-> 0]
    /\ paused = FALSE
    /\ queue = <<>>
    /\ reqs = [r \in ReqIds |-> FreeReq]
    /\ nuser = 0
    /\ last = [op |-> "init", r |-> 0, type |-> STEAM_API_TYPE_LAST, kind |-> "call",
               error |-> NullStr, callf |-> TRUE, ev |-> <<>>, dlv |-> NoDlv]

\* steam_state_from_str(steam_state_str(state))
StateRoundTrip ==
    /\ conv.pc = "state"
    /\ conv' = [conv EXCEPT !.pc = "roundtrip",
                            !.str = steam_state_str(conv.state),
                            !.out = steam_state_from_str(steam_state_str(conv.state))]
    /\ UNCHANGED <<api, paused, queue, reqs, nuser, last, sum, rsp>>

\* steam_state_from_str(str)
StateFromStr ==
    /\ conv.pc = "str"
    /\ conv' = [conv EXCEPT !.pc = "fromstr", !.out = steam_state_from_str(conv.str)]
    /\ UNCHANGED <<api, paused, queue, reqs, nuser, last, sum, rsp>>

NextConv == StateRoundTrip \/ StateFromStr

SpecConv == InitConv /\ [][NextConv]_vars

\* C15: steam_state_from_str(steam_state_str(s)) is s for every state of
\* the enumeration; a name in any mix of letter case gives its state; NULL
\* and a string that names no state give Offline.
C15_StateRoundTrip ==
    /\ conv.pc = "roundtrip" => conv.out = conv.state
    /\ conv.pc = "fromstr" => conv.out = conv.state

\* Snooze, the last state of the enumeration, came back from its name
C15_Witness ==
    /\ conv.pc = "roundtrip"
    /\ conv.state = STEAM_STATE_SNOOZE
    /\ conv.str = <<"S", "n", "o", "o", "z", "e">>
    /\ conv.out = STEAM_STATE_SNOOZE

\* the presence states of the enumeration: Offline .. Snoozing
SteamStates == STEAM_STATE_OFFLINE..STEAM_STATE_SNOOZE

\* C20: every Message of a Poll and every Summary handed to a
\* continuation carries a presence state of the enumeration {Offline,
\* Online, Busy, Away, Snoozing}, whatever integer the server sent.
C20_StatesInEnumeration ==
    (Delivered(STEAM_API_TYPE_POLL) \/ Delivered(STEAM_API_TYPE_SUMMARIES)) =>
        \A i \in DOMAIN last.dlv.rdata : last.dlv.rdata[i].state \in SteamStates

(* ------------------------------------------------------------------ *)
(* steam_api_summaries: the batch chunker.  The GSList is a sequence,  *)
(* a node is its place in it and 0 is NULL.                            *)
(* ------------------------------------------------------------------ *)

\* l->next
ListNext(friends, l) == IF l < Len(friends) THEN l + 1 ELSE 0

RECURSIVE ChunkEnd(_, _, _)
\* for (l = s, i = 0; (l != NULL) && (i < 100); l = l->next, i++): the l
\* the loop ends with
ChunkEnd(friends, l, i) ==
    IF l # 0 /\ i < ChunkMax THEN ChunkEnd(friends, ListNext(friends, l), i + 1) ELSE l

RECURSIVE ChunkIds(_, _, _)
\* s->data, then for (l = s->next; l != e; l = l->next) l->data
ChunkIds(friends, l, e) ==
    IF l = e \/ l = 0 THEN <<>>
    ELSE <<friends[l]>> \o ChunkIds(friends, ListNext(friends, l), e)

RECURSIVE SummariesLoopFrom(_, _, _, _)
\* while (TRUE) { ... } from the cursor s on: every pass notes its cursor
\* and hands one request over; a pass that starts with s == NULL reads
\* s->data, which is undefined (ub)
SummariesLoopFrom(friends, token, s, acc) ==
    LET acc1 == [acc EXCEPT !.cursors = Append(@, s)]
    IN  IF s = 0 THEN [acc1 EXCEPT !.ub = TRUE]
        ELSE LET e    == ChunkEnd(friends, s, 0)
                 str  == <<friends[s]>> \o ChunkIds(friends, ListNext(friends, s), e)
                 acc2 == [acc1 EXCEPT !.sent =
                             Append(@, [type |-> STEAM_API_TYPE_SUMMARIES,
                                        tok |-> token, steamids |-> str])]
             IN  IF e # 0
                 THEN SummariesLoopFrom(friends, token, ListNext(friends, e), acc2)
                 ELSE acc2

\* steam_api_summaries without its test for the empty list
steam_api_summaries_nocheck(w, friends, func) ==
    SummariesLoopFrom(friends, w.api.token, IF friends = <<>> THEN 0 ELSE 1,
                      [w |-> w, sent |-> <<>>, calls |-> <<>>, cursors |-> <<>>,
                       ub |-> FALSE])

\* steam_api_summaries(api, friends, func, data): the state it leaves,
\* the requests handed to the HTTP layer (none of them QUEUED, so each
\* goes out at once), the synchronous invocations of func and the cursors
steam_api_summaries(w, friends, func) ==
    LET acc == [w |-> w, sent |-> <<>>, calls |-> <<>>, cursors |-> <<>>, ub |-> FALSE]
    IN  IF friends = <<>>
        THEN IF func
             THEN [acc EXCEPT !.calls = <<[rdata |-> <<>>, err |-> NoErr]>>]
             ELSE acc
        ELSE SummariesLoopFrom(friends, w.api.token, 1, acc)

\* the call of steam_api_summaries with a list of n account ids.  Where
\* the code reads through a NULL cursor the process either dies or reads
\* whatever is there and hands a request with it over.
Summaries ==
    /\ sum.pc = "idle"
    /\ \E n \in 0..MaxFriends, func \in BOOLEAN :
         LET friends == [i \in 1..n |-> i]
             res     == steam_api_summaries(World, friends, func)
             base    == [pc |-> "done", friends |-> friends, func |-> func,
                         sent |-> res.sent, calls |-> res.calls,
                         cursors |-> res.cursors]
         IN  /\ api' = res.w.api
             /\ paused' = res.w.paused
             /\ queue' = res.w.queue
             /\ reqs' = res.w.reqs
             /\ IF res.ub
                THEN \/ sum' = [base EXCEPT !.pc = "crash"]
                     \/ sum' = [base EXCEPT !.sent =
                                   Append(@, [type |-> STEAM_API_TYPE_SUMMARIES,
                                              tok |-> api.token, steamids |-> <<0>>])]
                ELSE sum' = base
    /\ UNCHANGED <<nuser, last, rsp, conv>>

\* the Session and the queue steam_api_summaries may be called with
InitSum ==
    /\ sum = IdleSum
    /\ rsp = ApiCall
    /\ conv = IdleConv
    /\ api \in {[token |-> t, umqid |-> 1, steamid |-> 0, lmid |-> 0] : t \in 0..MaxVal}
    /\ paused \in BOOLEAN
    /\ queue = <<>>
    /\ reqs = [r \in ReqIds |-> FreeReq]
    /\ nuser = 0
    /\ last = [op |-> "init", r |-> 0, type |-> STEAM_API_TYPE_LAST, kind |-> "call",
               error |-> NullStr, callf |-> TRUE, ev |-> <<>>, dlv |-> NoDlv]

NextSum == Summaries

SpecSum == InitSum /\ [][NextSum]_vars

(* ------------------------------------------------------------------ *)
(* Properties of steam_api_summaries (SpecSum)                         *)
(* ------------------------------------------------------------------ *)

RECURSIVE Flatten(_)
\* the ids of the requests, in the order the requests were handed over
Flatten(sent) ==
    IF sent = <<>> THEN <<>> ELSE Head(sent).steamids \o Flatten(Tail(sent))

CeilDiv(n, d) == (n + d - 1) \div d

\* C8: for every non-empty id list the requests carry at most 100 ids each
\* and their ids, concatenated in issue order, are the input list.
C8_ChunksPartitionInput ==
    (sum.pc # "idle" /\ sum.friends # <<>>) =>
        /\ \A i \in 1..Len(sum.sent) : Len(sum.sent[i].steamids) <= ChunkMax
        /\ Flatten(sum.sent) = sum.friends

\* C9: for every id list of length N >= 1 exactly ceil(N/100) requests are
\* handed to the HTTP layer.
C9_CeilRequests ==
    (sum.pc # "idle" /\ Len(sum.friends) >= 1) =>
        Len(sum.sent) = CeilDiv(Len(sum.friends), ChunkMax)

\* C10: with an empty id list steam_api_summaries hands no request over,
\* invokes a given continuation once, at once, with an empty result and
\* no error, and leaves the Session, the queue and the requests as they were.
C10_EmptyListShortCircuits ==
    [][(sum.pc = "idle" /\ sum'.pc # "idle" /\ sum'.friends = <<>>) =>
          /\ sum'.pc = "done"
          /\ sum'.sent = <<>>
          /\ sum'.calls = IF sum'.func THEN <<[rdata |-> <<>>, err |-> NoErr]>>
                                       ELSE <<>>
          /\ UNCHANGED <<api, paused, queue, reqs>>]_vars

\* the empty list was given with a continuation, the queue paused and a
\* token set: the continuation ran once and nothing else changed
C10_Witness ==
    /\ sum.pc = "done"
    /\ sum.friends = <<>>
    /\ sum.func
    /\ Len(sum.calls) = 1
    /\ paused
    /\ api.token # 0

\* C22: for every non-empty id list the loop of steam_api_summaries comes
\* to its end, and the cursor s every pass starts with is a node of the
\* list (never NULL).
C22_CursorInList ==
    (sum.pc # "idle" /\ sum.friends # <<>>) =>
        /\ sum.pc = "done"
        /\ \A i \in DOMAIN sum.cursors : sum.cursors[i] \in DOMAIN sum.friends

====
